---- MODULE Spec2Model ----
(***************************************************************************)
(* Model of the site crawler of src/main.py: class SiteCrawler (admission  *)
(* filter, link extraction, depth-first crawl_page, report) and main().    *)
(*                                                                         *)
(* A URL string is modelled by the record of its five urlparse components; *)
(* paths are sequences of one-character strings so that rstrip, lower,     *)
(* endswith and the substring test are computed character by character.    *)
(* The call stack of crawl_page is the sequence `stack`, innermost frame   *)
(* last; every statement of crawl_page between which a KeyboardInterrupt   *)
(* can be delivered is one action.                                         *)
(*                                                                         *)
(* Specifications: Spec is main run from the command line; SpecApi adds a  *)
(* client calling crawl_page directly; SpecPure is a client calling        *)
(* is_valid_url and extract_links; SpecReport a client rendering a ledger  *)
(* twice; SpecCrawl is crawl() left to run under fairness; SpecSite is     *)
(* main run twice on one fixed site.                                       *)
(***************************************************************************)
EXTENDS Integers, Sequences, FiniteSets, TLC

(***************************************************************************)
(* Bounds of the model.                                                    *)
(***************************************************************************)
MaxDepthBound == 2      \* --max-depth ranges over 0..MaxDepthBound
MaxHrefs == 2           \* a served body holds at most MaxHrefs href attributes
MaxCalls == 2           \* direct crawl_page calls made by a library client
MaxClock == 1           \* the clock is read at most MaxClock ticks after the start

(***************************************************************************)
(* URL strings.                                                            *)
(***************************************************************************)
U(s, n, p, q, f) == [scheme |-> s, netloc |-> n, path |-> p, query |-> q, fragment |-> f]

NoUrl == U("", "", <<>>, "", "")

UpperChars == <<"A", "B", "C", "D", "E", "F", "G", "H", "I", "J", "K", "L", "M",
                "N", "O", "P", "Q", "R", "S", "T", "U", "V", "W", "X", "Y", "Z">>
LowerChars == <<"a", "b", "c", "d", "e", "f", "g", "h", "i", "j", "k", "l", "m",
                "n", "o", "p", "q", "r", "s", "t", "u", "v", "w", "x", "y", "z">>

\* str.lower() on one character
LowerChar(c) ==
    IF \E i \in 1..Len(UpperChars) : UpperChars[i] = c
    THEN LowerChars[CHOOSE i \in 1..Len(UpperChars) : UpperChars[i] = c]
    ELSE c

\* str.lower()
Lower(s) == [i \in 1..Len(s) |-> LowerChar(s[i])]

\* str.endswith(t)
EndsWith(s, t) ==
    /\ Len(t) <= Len(s)
    /\ SubSeq(s, Len(s) - Len(t) + 1, Len(s)) = t

\* t in s
Contains(s, t) ==
    \E i \in 1..(Len(s) - Len(t) + 1) : SubSeq(s, i, i + Len(t) - 1) = t

\* str.rstrip("/")
RECURSIVE RstripSlash(_)
RstripSlash(s) ==
    IF s # <<>> /\ s[Len(s)] = "/" THEN RstripSlash(SubSeq(s, 1, Len(s) - 1)) ELSE s

\* base_url.rstrip("/"): the trailing characters of the string are those of
\* the path when the URL carries neither query nor fragment
RstripUrl(u) ==
    IF u.query = "" /\ u.fragment = "" THEN [u EXCEPT !.path = RstripSlash(u.path)] ELSE u

\* main: a URL that starts with neither http:// nor https:// gets https://
NormalizeArg(u) ==
    IF u.scheme \in {"http", "https"} THEN u ELSE [u EXCEPT !.scheme = "https"]

skip_extensions ==
    { <<".", "p", "d", "f">>,
      <<".", "z", "i", "p">>,
      <<".", "e", "x", "e">>,
      <<".", "d", "m", "g">>,
      <<".", "p", "k", "g">>,
      <<".", "j", "p", "g">>,
      <<".", "j", "p", "e", "g">>,
      <<".", "p", "n", "g">>,
      <<".", "g", "i", "f">>,
      <<".", "s", "v", "g">>,
      <<".", "i", "c", "o">>,
      <<".", "c", "s", "s">>,
      <<".", "j", "s">>,
      <<".", "x", "m", "l">> }

skip_paths ==
    { <<"/", "a", "p", "i", "/">>,
      <<"/", "a", "d", "m", "i", "n", "/">>,
      <<"/", "w", "p", "-", "a", "d", "m", "i", "n", "/">>,
      <<"/", "c", "g", "i", "-", "b", "i", "n", "/">>,
      <<"/", "m", "a", "i", "l", "/">> }

(***************************************************************************)
(* The inputs: command lines and served bodies.                            *)
(***************************************************************************)
Host == "same.com"
OtherHost == "other.com"

PathSlash == <<"/">>
PathA == <<"/", "a">>
PathPdf == <<"/", "c", ".", "P", "D", "F">>
PathApiUpper == <<"/", "A", "P", "I", "/", "x">>
PathApiRoot == <<"/", "a", "p", "i", "/", "r", "/">>

\* args.url: "https://same.com/" and the bare "other.com/api/r/"
BaseArgs ==
    { U("https", Host, PathSlash, "", ""),
      U("", OtherHost, PathApiRoot, "", "") }

\* the href attributes a served body may carry
Hrefs ==
    { U("", "", PathA, "", ""),               \* href="/a"
      U("https", Host, PathA, "q=1", "top"),  \* href="https://same.com/a?q=1#top"
      U("", "", PathSlash, "", ""),           \* href="/"
      U("https", Host, <<>>, "", ""),         \* href="https://same.com"
      U("https", OtherHost, PathA, "", ""),   \* href="https://other.com/a"
      U("", "", PathPdf, "", ""),             \* href="/c.PDF"
      U("", "", PathApiUpper, "", ""),        \* href="/API/x"
      U("ftp", Host, PathA, "", ""),          \* href="ftp://same.com/a"
      U("http", "[", <<>>, "", "") }          \* href="http://["

Bodies == { b \in SUBSET Hrefs : Cardinality(b) <= MaxHrefs }

\* response.status_code values the server may answer
Statuses == {200, 204, 400}

\* exceptions session.get may raise
FetchFaults == {"RequestException", "Exception"}

NoCode == -1

VARIABLES
    base_url,              \* self.base_url
    domain,                \* self.domain
    max_depth,             \* self.max_depth
    visited_urls,          \* self.visited_urls
    url_status,            \* self.url_status
    url_depth,             \* self.url_depth
    error_urls,            \* self.error_urls
    total_requests,        \* self.total_requests
    stack,                 \* activation records of crawl_page, innermost last
    main_pc,               \* position of main (or "api" for a library client)
    crawling_interrupted,  \* main's flag
    crawl_result,          \* how crawler.crawl() ended in main
    reports,               \* the reports generate_report returned to main
    api_calls,             \* number of direct crawl_page calls of the client
    events,                \* log of calls, fetches, sleeps and extractions
    site,                  \* what the server is bound to answer, per URL
    first_run,             \* the ledger an earlier run on the same site ended with
    probe,                 \* the last direct call of a method and its outcome
    io                     \* exit code of main, what it printed and what it saved

ledger == <<visited_urls, url_status, url_depth, error_urls, total_requests>>

vars == <<base_url, domain, max_depth, visited_urls, url_status, url_depth,
          error_urls, total_requests, stack, main_pc, crawling_interrupted,
          crawl_result, reports, api_calls, events, site, first_run, probe, io>>

(***************************************************************************)
(* SiteCrawler.is_valid_url                                                *)
(***************************************************************************)
\* the filter without its host rule
is_valid_url_any_host(url) ==
    /\ url.scheme \in {"http", "https"}
    /\ ~ \E ext \in skip_extensions : EndsWith(Lower(url.path), ext)
    /\ ~ \E skip_path \in skip_paths : Contains(Lower(url.path), skip_path)

is_valid_url(url) ==
    /\ url.netloc = domain
    /\ url.scheme \in {"http", "https"}
    /\ ~ \E ext \in skip_extensions : EndsWith(Lower(url.path), ext)
    /\ ~ \E skip_path \in skip_paths : Contains(Lower(url.path), skip_path)

(***************************************************************************)
(* SiteCrawler.extract_links                                               *)
(***************************************************************************)
\* urlsplit raises ValueError on a netloc with an unbalanced bracket
UrlparseRaises(href) == href.netloc = "["

\* urljoin(current_url, match) for an absolute URL and for an absolute path
urljoin(current_url, href) ==
    IF href.scheme # "" THEN href
    ELSE [href EXCEPT !.scheme = current_url.scheme, !.netloc = current_url.netloc]

\* f"{parsed.scheme}://{parsed.netloc}{parsed.path}"
\* the clean-up dropping the fragment only
clean_url_keep_query(u) == [u EXCEPT !.fragment = ""]

clean_url(u) == [u EXCEPT !.query = "", !.fragment = ""]

ExtractRaises(body) == \E href \in body : UrlparseRaises(href)

extract_links(body, current_url) ==
    { clean_url(urljoin(current_url, href)) : href \in
        { h \in body : is_valid_url(clean_url(urljoin(current_url, h))) } }

(***************************************************************************)
(* SiteCrawler.__init__ and the state main starts the crawl in.            *)
(***************************************************************************)
EmptyMap == [u \in {} |-> 0]

InitCrawler(arg, depth_arg) ==
    /\ base_url = RstripUrl(NormalizeArg(arg))
    /\ domain = NormalizeArg(arg).netloc
    /\ max_depth = depth_arg
    /\ visited_urls = {}
    /\ url_status = EmptyMap
    /\ url_depth = EmptyMap
    /\ error_urls = EmptyMap
    /\ total_requests = 0
    /\ stack = <<>>
    /\ crawling_interrupted = FALSE
    /\ crawl_result = "none"
    /\ reports = <<>>
    /\ api_calls = 0
    /\ events = <<>>

\* a server free to answer anything to any request: no URL is bound
AnySite == EmptyMap

NoExit == -1
NoProbe == [fn |-> "none", url |-> NoUrl, body |-> {}, result |-> "none", links |-> {}]
NoOutput == [exit_code |-> NoExit, stdout |-> <<>>, file |-> <<>>, write_error |-> "none"]

\* the process before main has run: nothing printed, nothing saved, no exit
\* code, no method called from outside, no earlier run
InitProcess ==
    /\ first_run = <<>>
    /\ probe = NoProbe
    /\ io = NoOutput

\* what session.get(url) may do on this server: return a response with a
\* status code, or raise
ServesCode(url, code) ==
    url \in DOMAIN site => (site[url].fault = "none" /\ site[url].code = code)

ServesFault(url, kind) == url \in DOMAIN site => site[url].fault = kind

\* the bodies response.text may hold for url
ServedBodies(url) == IF url \in DOMAIN site THEN {site[url].body} ELSE Bodies

Init ==
    /\ \E arg \in BaseArgs, depth_arg \in 0..MaxDepthBound : InitCrawler(arg, depth_arg)
    /\ main_pc = "crawl"
    /\ site = AnySite
    /\ InitProcess

(***************************************************************************)
(* Helpers on the call stack, the maps and the event log.                  *)
(***************************************************************************)
Frame(url, depth) ==
    [url |-> url, depth |-> depth, pc |-> "enter", code |-> NoCode,
     links |-> {}, link |-> NoUrl]

Running == stack # <<>>
Top == stack[Len(stack)]
Pop == SubSeq(stack, 1, Len(stack) - 1)
SetTop(f) == [stack EXCEPT ![Len(stack)] = f]
At(pc) == Running /\ Top.pc = pc

Ev(op, url, by, depth, links) ==
    [op |-> op, url |-> url, by |-> by, depth |-> depth, links |-> links]

Range(f) == { f[x] : x \in DOMAIN f }
SeqRange(s) == { s[i] : i \in 1..Len(s) }

\* d[k] = v on a dict
Put(d, k, v) == [x \in DOMAIN d \cup {k} |-> IF x = k THEN v ELSE d[x]]

\* error_urls[code] = [url]: the list rebound instead of appended to
AppendErrorReplace(code, url) == Put(error_urls, code, <<url>>)

\* error_urls[code].append(url) on the defaultdict(list)
AppendError(code, url) ==
    Put(error_urls, code,
        IF code \in DOMAIN error_urls THEN Append(error_urls[code], url) ELSE <<url>>)

ErrorListed == UNION { SeqRange(error_urls[c]) : c \in DOMAIN error_urls }

(***************************************************************************)
(* SiteCrawler.crawl_page, statement by statement.                         *)
(***************************************************************************)
\* the guard without its visited test
ShouldSkipDepthOnly(url, depth) == depth > max_depth

\* the guard without its depth test
ShouldSkipVisitedOnly(url, depth) == url \in visited_urls

\* line 125: if depth > self.max_depth or url in self.visited_urls: return
ShouldSkip(url, depth) == depth > max_depth \/ url \in visited_urls

\* the error test with a strict comparison
IsErrorStrict(code) == code > 400

\* the error test taking every status but 200 for an error
IsErrorNon200(code) == code # 200

\* line 143: if status_code >= 400
IsError(code) == code >= 400

\* the descent test with an off-by-one depth comparison
ShouldDescendInclusive(code, depth) == code = 200 /\ depth <= max_depth

\* the descent test taking every non-error answer for a page
ShouldDescendNonError(code, depth) == code < 400 /\ depth < max_depth

\* line 148: if status_code == 200 and depth < self.max_depth
ShouldDescend(code, depth) == code = 200 /\ depth < max_depth

\* the loop without its visited test
NeedsVisitAlways(link) == TRUE

\* line 152: if link not in self.visited_urls
NeedsVisit(link) == link \notin visited_urls

\* lines 125-128: the guard, then visited_urls.add(url)
Enter ==
    /\ At("enter")
    /\ IF ShouldSkip(Top.url, Top.depth)
       THEN /\ stack' = Pop
            /\ UNCHANGED visited_urls
       ELSE /\ visited_urls' = visited_urls \cup {Top.url}
            /\ stack' = SetTop([Top EXCEPT !.pc = "depth"])
    /\ UNCHANGED <<site, first_run, probe, io,
                   base_url, domain, max_depth, url_status, url_depth, error_urls,
                   total_requests, main_pc, crawling_interrupted, crawl_result,
                   reports, api_calls, events>>

\* line 129: self.url_depth[url] = depth
SetDepth ==
    /\ At("depth")
    /\ url_depth' = Put(url_depth, Top.url, Top.depth)
    /\ stack' = SetTop([Top EXCEPT !.pc = "get"])
    /\ UNCHANGED <<site, first_run, probe, io,
                   base_url, domain, max_depth, visited_urls, url_status, error_urls,
                   total_requests, main_pc, crawling_interrupted, crawl_result,
                   reports, api_calls, events>>

\* line 135: session.get returns a response
FetchResponse(code) ==
    /\ At("get")
    /\ ServesCode(Top.url, code)
    /\ stack' = SetTop([Top EXCEPT !.pc = "count", !.code = code])
    /\ events' = Append(events, Ev("get", Top.url, NoUrl, Top.depth, {}))
    /\ UNCHANGED <<site, first_run, probe, io,
                   base_url, domain, max_depth, visited_urls, url_status, url_depth,
                   error_urls, total_requests, main_pc, crawling_interrupted,
                   crawl_result, reports, api_calls>>

\* session.get raises and only RequestException is caught: any other
\* exception leaves the visit, is caught by the caller's handler of line
\* 156, which ends the caller's visit, or reaches main from the root visit
FetchRaisesUncaught(kind) ==
    /\ At("get")
    /\ ServesFault(Top.url, kind)
    /\ events' = events \o << Ev("get", Top.url, NoUrl, Top.depth, {}),
                              Ev(kind, Top.url, NoUrl, Top.depth, {}) >>
    /\ IF kind = "RequestException"
       THEN /\ stack' = SetTop([Top EXCEPT !.pc = "except0"])
            /\ UNCHANGED <<main_pc, crawling_interrupted, crawl_result>>
       ELSE IF Len(stack) > 1
       THEN /\ stack' = SubSeq(stack, 1, Len(stack) - 2)
            /\ UNCHANGED <<main_pc, crawling_interrupted, crawl_result>>
       ELSE /\ stack' = <<>>
            /\ main_pc' = IF main_pc = "api" THEN "api" ELSE "report"
            /\ crawling_interrupted' = (main_pc # "api")
            /\ crawl_result' = IF main_pc = "api" THEN crawl_result ELSE "Exception"
    /\ UNCHANGED <<site, first_run, probe, io,
                   base_url, domain, max_depth, visited_urls, url_status, url_depth,
                   error_urls, total_requests, reports, api_calls>>

\* line 135: session.get raises; lines 159 and 164 both catch it
FetchRaises(kind) ==
    /\ At("get")
    /\ ServesFault(Top.url, kind)
    /\ stack' = SetTop([Top EXCEPT !.pc = "except0"])
    /\ events' = events \o << Ev("get", Top.url, NoUrl, Top.depth, {}),
                              Ev(kind, Top.url, NoUrl, Top.depth, {}) >>
    /\ UNCHANGED <<site, first_run, probe, io,
                   base_url, domain, max_depth, visited_urls, url_status, url_depth,
                   error_urls, total_requests, main_pc, crawling_interrupted,
                   crawl_result, reports, api_calls>>

\* line 136: self.total_requests += 1
Count ==
    /\ At("count")
    /\ total_requests' = total_requests + 1
    /\ stack' = SetTop([Top EXCEPT !.pc = "status"])
    /\ UNCHANGED <<site, first_run, probe, io,
                   base_url, domain, max_depth, visited_urls, url_status, url_depth,
                   error_urls, main_pc, crawling_interrupted, crawl_result,
                   reports, api_calls, events>>

\* a status written for the error responses only
SetStatusErrorsOnly ==
    /\ At("status")
    /\ url_status' = IF Top.code >= 400 THEN Put(url_status, Top.url, Top.code)
                     ELSE url_status
    /\ stack' = SetTop([Top EXCEPT !.pc = "classify"])
    /\ UNCHANGED <<site, first_run, probe, io,
                   base_url, domain, max_depth, visited_urls, url_depth, error_urls,
                   total_requests, main_pc, crawling_interrupted, crawl_result,
                   reports, api_calls, events>>

\* lines 139-140: self.url_status[url] = status_code
SetStatus ==
    /\ At("status")
    /\ url_status' = Put(url_status, Top.url, Top.code)
    /\ stack' = SetTop([Top EXCEPT !.pc = "classify"])
    /\ UNCHANGED <<site, first_run, probe, io,
                   base_url, domain, max_depth, visited_urls, url_depth, error_urls,
                   total_requests, main_pc, crawling_interrupted, crawl_result,
                   reports, api_calls, events>>

\* lines 143-145: track errors
Classify ==
    /\ At("classify")
    /\ error_urls' = IF IsError(Top.code) THEN AppendError(Top.code, Top.url)
                     ELSE error_urls
    /\ stack' = SetTop([Top EXCEPT !.pc = "extract"])
    /\ events' = Append(events, Ev("handled", Top.url, NoUrl, Top.depth, {}))
    /\ UNCHANGED <<site, first_run, probe, io,
                   base_url, domain, max_depth, visited_urls, url_status, url_depth,
                   total_requests, main_pc, crawling_interrupted, crawl_result,
                   reports, api_calls>>

\* the extraction without its own try block: a ValueError of extract_links
\* reaches the handler of line 164
ExtractUncontained ==
    /\ At("extract")
    /\ IF ~ ShouldDescend(Top.code, Top.depth)
       THEN /\ stack' = Pop
            /\ UNCHANGED events
       ELSE \E body \in ServedBodies(Top.url) :
              IF ExtractRaises(body)
              THEN /\ stack' = SetTop([Top EXCEPT !.pc = "except0"])
                   /\ events' = Append(events,
                                  Ev("extract_failed", Top.url, NoUrl, Top.depth, {}))
              ELSE /\ stack' = SetTop([Top EXCEPT !.pc = "loop",
                                          !.links = extract_links(body, Top.url)])
                   /\ events' = Append(events,
                                  Ev("extract", Top.url, NoUrl, Top.depth,
                                     extract_links(body, Top.url)))
    /\ UNCHANGED <<site, first_run, probe, io,
                   base_url, domain, max_depth, visited_urls, url_status, url_depth,
                   error_urls, total_requests, main_pc, crawling_interrupted,
                   crawl_result, reports, api_calls>>

\* lines 148-150 and 156-157: the descent test, then extract_links on
\* response.text; a ValueError from the extraction ends the visit
Extract ==
    /\ At("extract")
    /\ IF ~ ShouldDescend(Top.code, Top.depth)
       THEN /\ stack' = Pop
            /\ UNCHANGED events
       ELSE \E body \in ServedBodies(Top.url) :
              IF ExtractRaises(body)
              THEN /\ stack' = Pop
                   /\ events' = Append(events,
                                  Ev("extract_failed", Top.url, NoUrl, Top.depth, {}))
              ELSE /\ stack' = SetTop([Top EXCEPT !.pc = "loop",
                                          !.links = extract_links(body, Top.url)])
                   /\ events' = Append(events,
                                  Ev("extract", Top.url, NoUrl, Top.depth,
                                     extract_links(body, Top.url)))
    /\ UNCHANGED <<site, first_run, probe, io,
                   base_url, domain, max_depth, visited_urls, url_status, url_depth,
                   error_urls, total_requests, main_pc, crawling_interrupted,
                   crawl_result, reports, api_calls>>

\* the loop re-recording a visited link that it reaches by a shorter path
LoopRelax ==
    /\ At("loop")
    /\ IF Top.links = {}
       THEN /\ stack' = Pop
            /\ UNCHANGED url_depth
       ELSE \E link \in Top.links :
              /\ stack' = SetTop(IF NeedsVisit(link)
                                 THEN [Top EXCEPT !.links = @ \ {link}, !.link = link,
                                                  !.pc = "sleep"]
                                 ELSE [Top EXCEPT !.links = @ \ {link}])
              /\ url_depth' = IF /\ link \in DOMAIN url_depth
                                 /\ url_depth[link] > Top.depth + 1
                              THEN Put(url_depth, link, Top.depth + 1)
                              ELSE url_depth
    /\ UNCHANGED <<site, first_run, probe, io,
                   base_url, domain, max_depth, visited_urls, url_status,
                   error_urls, total_requests, main_pc, crawling_interrupted,
                   crawl_result, reports, api_calls, events>>

\* a loop that takes a link of the set again when the link is visited
\* already, as a worklist that is not consumed does
LoopNoAdvance ==
    /\ At("loop")
    /\ IF Top.links = {}
       THEN stack' = Pop
       ELSE \E link \in Top.links :
              stack' = SetTop(IF NeedsVisit(link)
                              THEN [Top EXCEPT !.links = @ \ {link}, !.link = link,
                                               !.pc = "sleep"]
                              ELSE Top)
    /\ UNCHANGED <<site, first_run, probe, io,
                   base_url, domain, max_depth, visited_urls, url_status, url_depth,
                   error_urls, total_requests, main_pc, crawling_interrupted,
                   crawl_result, reports, api_calls, events>>

\* lines 151-152: the next link of the set, in any order, and its test
Loop ==
    /\ At("loop")
    /\ IF Top.links = {}
       THEN stack' = Pop
       ELSE \E link \in Top.links :
              stack' = SetTop(IF NeedsVisit(link)
                              THEN [Top EXCEPT !.links = @ \ {link}, !.link = link,
                                               !.pc = "sleep"]
                              ELSE [Top EXCEPT !.links = @ \ {link}])
    /\ UNCHANGED <<site, first_run, probe, io,
                   base_url, domain, max_depth, visited_urls, url_status, url_depth,
                   error_urls, total_requests, main_pc, crawling_interrupted,
                   crawl_result, reports, api_calls, events>>

\* line 154: time.sleep(self.delay)
Sleep ==
    /\ At("sleep")
    /\ stack' = SetTop([Top EXCEPT !.pc = "call"])
    /\ events' = Append(events, Ev("sleep", Top.link, Top.url, Top.depth + 1, {}))
    /\ UNCHANGED <<site, first_run, probe, io,
                   base_url, domain, max_depth, visited_urls, url_status, url_depth,
                   error_urls, total_requests, main_pc, crawling_interrupted,
                   crawl_result, reports, api_calls>>

\* the visit of the link put off until the loop of the page is over, as a
\* traversal that queues its links does
CallDeferred ==
    /\ At("call")
    /\ stack' = Append(Append(Pop, Frame(Top.link, Top.depth + 1)),
                       [Top EXCEPT !.pc = "loop", !.link = NoUrl])
    /\ events' = Append(events, Ev("call", Top.link, Top.url, Top.depth + 1, {}))
    /\ UNCHANGED <<site, first_run, probe, io,
                   base_url, domain, max_depth, visited_urls, url_status, url_depth,
                   error_urls, total_requests, main_pc, crawling_interrupted,
                   crawl_result, reports, api_calls>>

\* line 155: self.crawl_page(link, depth + 1)
Call ==
    /\ At("call")
    /\ stack' = Append(SetTop([Top EXCEPT !.pc = "loop", !.link = NoUrl]),
                       Frame(Top.link, Top.depth + 1))
    /\ events' = Append(events, Ev("call", Top.link, Top.url, Top.depth + 1, {}))
    /\ UNCHANGED <<site, first_run, probe, io,
                   base_url, domain, max_depth, visited_urls, url_status, url_depth,
                   error_urls, total_requests, main_pc, crawling_interrupted,
                   crawl_result, reports, api_calls>>

\* the handler without its status write
Except0NoWrite ==
    /\ At("except0")
    /\ stack' = SetTop([Top EXCEPT !.pc = "except1"])
    /\ UNCHANGED <<site, first_run, probe, io,
                   base_url, domain, max_depth, visited_urls, url_status, url_depth,
                   error_urls, total_requests, main_pc, crawling_interrupted,
                   crawl_result, reports, api_calls, events>>

\* lines 161 and 166: self.url_status[url] = 0
Except0 ==
    /\ At("except0")
    /\ url_status' = Put(url_status, Top.url, 0)
    /\ stack' = SetTop([Top EXCEPT !.pc = "except1"])
    /\ UNCHANGED <<site, first_run, probe, io,
                   base_url, domain, max_depth, visited_urls, url_depth, error_urls,
                   total_requests, main_pc, crawling_interrupted, crawl_result,
                   reports, api_calls, events>>

\* lines 162 and 167: self.error_urls[0].append(url), then the visit returns
Except1 ==
    /\ At("except1")
    /\ error_urls' = AppendError(0, Top.url)
    /\ stack' = Pop
    /\ events' = Append(events, Ev("handled", Top.url, NoUrl, Top.depth, {}))
    /\ UNCHANGED <<site, first_run, probe, io,
                   base_url, domain, max_depth, visited_urls, url_status, url_depth,
                   total_requests, main_pc, crawling_interrupted, crawl_result,
                   reports, api_calls>>

CrawlPageStep ==
    \/ Enter
    \/ SetDepth
    \/ \E code \in Statuses : FetchResponse(code)
    \/ \E kind \in FetchFaults : FetchRaises(kind)
    \/ Count
    \/ SetStatus
    \/ Classify
    \/ Extract
    \/ Loop
    \/ Sleep
    \/ Call
    \/ Except0
    \/ Except1

(***************************************************************************)
(* SiteCrawler.generate_report                                             *)
(***************************************************************************)
Unknown == -1

MaxOf(S) == CHOOSE m \in S : \A n \in S : n <= m

\* status_desc of the histogram
StatusDesc(code) ==
    IF code = 0 THEN "FAILED"
    ELSE IF code = 200 THEN "OK"
    ELSE IF code >= 400 THEN "ERROR"
    ELSE "OTHER"

\* self.url_status.get(url, "Unknown")
StatusOrUnknown(url) == IF url \in DOMAIN url_status THEN url_status[url] ELSE Unknown

MaxDepthReached == IF DOMAIN url_depth # {} THEN MaxOf(Range(url_depth)) ELSE 0

\* the section with its always-printed heading
HasErrorSectionAlways == TRUE

\* line 241: if self.error_urls
HasErrorSection == DOMAIN error_urls # {}

\* self.start_time, the clock reading of the constructor; the clock is read
\* in the hundredths of a second that f"{duration:.2f}" prints
StartTime == 0
ClockReadings == StartTime..(StartTime + MaxClock)

\* the text of the report, section by section; end_time is the reading of
\* time.time() at line 180
generate_report(is_partial, end_time) ==
    [ title |-> base_url,
      partial_marker |-> is_partial,
      domain |-> domain,
      start_time |-> StartTime,
      duration |-> end_time - StartTime,
      total_requests |-> total_requests,
      pages_visited |-> Cardinality(visited_urls),
      max_depth_reached |-> MaxDepthReached,
      status_counts |-> [code \in Range(url_status) |->
                           <<StatusDesc(code),
                             Cardinality({u \in DOMAIN url_status : url_status[u] = code})>>],
      error_section |-> IF HasErrorSection THEN <<error_urls>> ELSE <<>>,
      by_depth |-> [d \in Range(url_depth) |->
                      { <<StatusOrUnknown(u), u>> : u \in
                          { v \in DOMAIN url_depth : url_depth[v] = d } }] ]

(***************************************************************************)
(* SiteCrawler.crawl and main                                              *)
(***************************************************************************)
\* crawl() putting the base URL through the admission filter
CrawlStartFiltered ==
    /\ main_pc = "crawl"
    /\ main_pc' = "crawling"
    /\ stack' = IF is_valid_url(base_url) THEN <<Frame(base_url, 0)>> ELSE <<>>
    /\ events' = IF is_valid_url(base_url)
                 THEN Append(events, Ev("call", base_url, NoUrl, 0, {}))
                 ELSE events
    /\ UNCHANGED <<site, first_run, probe, io,
                   base_url, domain, max_depth, visited_urls, url_status, url_depth,
                   error_urls, total_requests, crawling_interrupted, crawl_result,
                   reports, api_calls>>

\* lines 171-174: crawl() calls crawl_page(self.base_url, 0)
CrawlStart ==
    /\ main_pc = "crawl"
    /\ main_pc' = "crawling"
    /\ stack' = <<Frame(base_url, 0)>>
    /\ events' = Append(events, Ev("call", base_url, NoUrl, 0, {}))
    /\ UNCHANGED <<site, first_run, probe, io,
                   base_url, domain, max_depth, visited_urls, url_status, url_depth,
                   error_urls, total_requests, crawling_interrupted, crawl_result,
                   reports, api_calls>>

\* line 176 and main line 314: crawl() returns normally
CrawlReturn ==
    /\ main_pc = "crawling"
    /\ stack = <<>>
    /\ main_pc' = "report"
    /\ crawl_result' = "returned"
    /\ UNCHANGED <<site, first_run, probe, io,
                   base_url, domain, max_depth, visited_urls, url_status, url_depth,
                   error_urls, total_requests, stack, crawling_interrupted,
                   reports, api_calls, events>>

\* main lines 316-319: a KeyboardInterrupt, delivered between any two
\* statements of the crawl, is caught by no handler of crawl_page and
\* unwinds every frame up to main
Interrupt ==
    /\ main_pc \in {"crawl", "crawling"}
    /\ stack' = <<>>
    /\ crawling_interrupted' = TRUE
    /\ crawl_result' = "KeyboardInterrupt"
    /\ main_pc' = "report"
    /\ UNCHANGED <<site, first_run, probe, io,
                   base_url, domain, max_depth, visited_urls, url_status, url_depth,
                   error_urls, total_requests, reports, api_calls, events>>

\* the second handler of main without its flag assignment
FatalErrorNoFlag ==
    /\ main_pc = "crawl"
    /\ crawl_result' = "Exception"
    /\ main_pc' = "report"
    /\ UNCHANGED <<site, first_run, probe, io,
                   base_url, domain, max_depth, visited_urls, url_status, url_depth,
                   error_urls, total_requests, stack, crawling_interrupted,
                   reports, api_calls, events>>

\* main lines 320-323: crawl() itself raises an Exception
FatalError ==
    /\ main_pc = "crawl"
    /\ crawling_interrupted' = TRUE
    /\ crawl_result' = "Exception"
    /\ main_pc' = "report"
    /\ UNCHANGED <<site, first_run, probe, io,
                   base_url, domain, max_depth, visited_urls, url_status, url_depth,
                   error_urls, total_requests, stack, reports, api_calls, events>>

\* main line 327: report = crawler.generate_report(is_partial=crawling_interrupted)
GenerateReport ==
    /\ main_pc = "report"
    /\ \E end_time \in ClockReadings :
         reports' = Append(reports, generate_report(crawling_interrupted, end_time))
    /\ main_pc' = "output"
    /\ UNCHANGED <<site, first_run, probe, io,
                   base_url, domain, max_depth, visited_urls, url_status, url_depth,
                   error_urls, total_requests, stack, crawling_interrupted,
                   crawl_result, api_calls, events>>

\* main lines 327 and 340-342: generate_report raises (a MemoryError while
\* the text is built); the handler logs it and calls sys.exit(1)
GenerateReportRaises ==
    /\ main_pc = "report"
    /\ io' = [io EXCEPT !.exit_code = 1]
    /\ main_pc' = "done"
    /\ UNCHANGED <<site, first_run, probe, base_url, domain, max_depth, visited_urls,
                   url_status, url_depth, error_urls, total_requests, stack,
                   crawling_interrupted, crawl_result, reports, api_calls, events>>

\* exceptions the write of lines 331-332 may raise: an OSError from open or
\* write, and the UnicodeEncodeError of a text the encoding of the locale
\* cannot encode
WriteFaults == {"IOError", "UnicodeEncodeError"}

\* the text holds a character outside ASCII: the marker of line 190
HasNonAscii(report) == report.partial_marker

\* f.write(report) raising kind
WriteMayRaise(kind) == kind = "UnicodeEncodeError" => HasNonAscii(reports[1])

\* main lines 337-338: no --output, the report is printed; main returns
OutputPrint ==
    /\ main_pc = "output"
    /\ io' = [io EXCEPT !.stdout = Append(@, reports[1]), !.exit_code = 0]
    /\ main_pc' = "done"
    /\ UNCHANGED <<site, first_run, probe, base_url, domain, max_depth, visited_urls,
                   url_status, url_depth, error_urls, total_requests, stack,
                   crawling_interrupted, crawl_result, reports, api_calls, events>>

\* main lines 329-333: --output, the report is written; main returns
OutputSave ==
    /\ main_pc = "output"
    /\ io' = [io EXCEPT !.file = Append(@, reports[1]), !.exit_code = 0]
    /\ main_pc' = "done"
    /\ UNCHANGED <<site, first_run, probe, base_url, domain, max_depth, visited_urls,
                   url_status, url_depth, error_urls, total_requests, stack,
                   crawling_interrupted, crawl_result, reports, api_calls, events>>

\* main lines 330-336 and 340-342: --output and the write raises; an IOError
\* is caught at line 334, the report is printed and main returns; any other
\* exception reaches line 340 and main calls sys.exit(1)
OutputWriteFails(kind) ==
    /\ main_pc = "output"
    /\ WriteMayRaise(kind)
    /\ io' = IF kind = "IOError"
             THEN [io EXCEPT !.write_error = kind, !.stdout = Append(@, reports[1]),
                             !.exit_code = 0]
             ELSE [io EXCEPT !.write_error = kind, !.exit_code = 1]
    /\ main_pc' = "done"
    /\ UNCHANGED <<site, first_run, probe, base_url, domain, max_depth, visited_urls,
                   url_status, url_depth, error_urls, total_requests, stack,
                   crawling_interrupted, crawl_result, reports, api_calls, events>>

\* main lines 329-338: the report is printed or saved
Output ==
    \/ OutputPrint
    \/ OutputSave
    \/ \E kind \in WriteFaults : OutputWriteFails(kind)

Next ==
    \/ CrawlStart
    \/ CrawlPageStep
    \/ CrawlReturn
    \/ Interrupt
    \/ FatalError
    \/ GenerateReport
    \/ GenerateReportRaises
    \/ Output

Spec == Init /\ [][Next]_vars

(***************************************************************************)
(* crawler.crawl() running to its end without cancellation: the single     *)
(* thread of the program keeps executing its next statement, and every     *)
(* session.get returns or raises (timeout=30, line 135).                   *)
(***************************************************************************)
NextCrawl ==
    \/ CrawlStart
    \/ CrawlPageStep
    \/ CrawlReturn

SpecCrawl == Init /\ [][NextCrawl]_vars /\ WF_vars(NextCrawl)

(***************************************************************************)
(* The program run twice on one site: each URL of the site has one fetch   *)
(* outcome and one body, the same in both runs; what differs between and   *)
(* within runs is the order in which the loop of line 151 iterates the set *)
(* of links.                                                               *)
(***************************************************************************)
PathB == <<"/", "b">>
PathC == <<"/", "c">>

SiteArg == U("https", Host, PathSlash, "", "")

PageR == RstripUrl(NormalizeArg(SiteArg))
PageA == U("https", Host, PathA, "", "")
PageB == U("https", Host, PathB, "", "")
PageC == U("https", Host, PathC, "", "")

HrefA == U("", "", PathA, "", "")    \* href="/a"
HrefB == U("", "", PathB, "", "")    \* href="/b"
HrefC == U("", "", PathC, "", "")    \* href="/c"

Answer(code, fault, body) == [code |-> code, fault |-> fault, body |-> body]

\* the sites: the root links to any of the three pages, /a and /b to each
\* other and to /c, /c to nothing; /b answers 200, answers 400 or fails
Sites ==
    { (PageR :> Answer(200, "none", r)) @@ (PageA :> Answer(200, "none", a)) @@
      (PageB :> bb) @@ (PageC :> Answer(200, "none", {})) :
        r \in { x \in SUBSET {HrefA, HrefB, HrefC} : Cardinality(x) <= MaxHrefs },
        a \in SUBSET {HrefB, HrefC},
        bb \in { Answer(200, "none", b) : b \in SUBSET {HrefA, HrefC} }
                 \cup { Answer(400, "none", {}), Answer(NoCode, "RequestException", {}) } }

InitSite ==
    /\ \E depth_arg \in 0..MaxDepthBound : InitCrawler(SiteArg, depth_arg)
    /\ main_pc = "crawl"
    /\ site \in Sites
    /\ InitProcess

\* the ledger a run ended with
Outcome ==
    [visited_urls |-> visited_urls, url_depth |-> url_depth, url_status |-> url_status]

\* main is started again with the same arguments after a crawl that
\* returned: a new SiteCrawler, the outcome of the first run kept aside
Rerun ==
    /\ main_pc = "report"
    /\ crawl_result = "returned"
    /\ first_run = <<>>
    /\ first_run' = <<Outcome>>
    /\ visited_urls' = {}
    /\ url_status' = EmptyMap
    /\ url_depth' = EmptyMap
    /\ error_urls' = EmptyMap
    /\ total_requests' = 0
    /\ crawl_result' = "none"
    /\ events' = <<>>
    /\ main_pc' = "crawl"
    /\ UNCHANGED <<site, probe, io, base_url, domain, max_depth, stack,
                   crawling_interrupted, reports, api_calls>>

NextSite ==
    \/ CrawlStart
    \/ CrawlPageStep
    \/ CrawlReturn
    \/ Rerun

SpecSite == InitSite /\ [][NextSite]_vars

(***************************************************************************)
(* A library client (the unit tests) that calls crawl_page directly, at    *)
(* any depth up to one past the limit, on a crawler constructed with a     *)
(* max_depth of at most the one of test_crawl_page_depth_limit.            *)
(***************************************************************************)
\* SiteCrawler("https://example.com", max_depth=1)
TestMaxDepth == 1

ApiUrls ==
    { U("https", Host, PathA, "", ""),
      U("https", OtherHost, PathA, "", "") }

InitApi ==
    /\ \E arg \in BaseArgs, depth_arg \in 0..TestMaxDepth : InitCrawler(arg, depth_arg)
    /\ main_pc = "api"
    /\ site = AnySite
    /\ InitProcess

\* crawler.crawl_page(url, depth) called from outside the crawler
ApiCall(url, depth) ==
    /\ main_pc = "api"
    /\ stack = <<>>
    /\ api_calls < MaxCalls
    /\ api_calls' = api_calls + 1
    /\ stack' = <<Frame(url, depth)>>
    /\ events' = Append(events, Ev("call", url, NoUrl, depth, {}))
    /\ UNCHANGED <<site, first_run, probe, io,
                   base_url, domain, max_depth, visited_urls, url_status, url_depth,
                   error_urls, total_requests, main_pc, crawling_interrupted,
                   crawl_result, reports>>

NextApi ==
    \/ \E url \in ApiUrls, depth \in 0..(TestMaxDepth + 1) : ApiCall(url, depth)
    \/ Next

\* the program run from the command line, or the crawler driven by a client
SpecApi == (Init \/ InitApi) /\ [][NextApi]_vars

(***************************************************************************)
(* A library client (the unit tests of is_valid_url and extract_links)     *)
(* that constructs a crawler and calls the two methods on strings of its   *)
(* choice.                                                                 *)
(***************************************************************************)
SubHost == "sub.same.com"
BadNetloc == "["

PathPdfDir == <<"/", "c", ".", "p", "d", "f", "/", "a">>
PathJs == <<"/", "a", ".", "j", "s">>
PathMail == <<"/", "x", "/", "M", "a", "i", "l", "/">>

\* the strings handed to is_valid_url
FilterInputs ==
    { U(s, n, p, "", "") :
        s \in {"https", "http", "ftp"},
        n \in {Host, OtherHost, SubHost, BadNetloc},
        p \in {<<>>, PathA, PathPdf, PathPdfDir, PathJs, PathApiUpper, PathMail} }

\* the page URLs handed to extract_links
PageUrls ==
    { U("https", Host, PathSlash, "", ""),
      U("http", OtherHost, PathA, "", "") }

\* is_valid_url(url) called on a string: line 63 parses it first, and
\* urlparse raises ValueError on a netloc with an unbalanced bracket
is_valid_url_call(url) ==
    IF UrlparseRaises(url) THEN "ValueError"
    ELSE IF is_valid_url(url) THEN "True" ELSE "False"

InitPure ==
    /\ \E arg \in BaseArgs, depth_arg \in 0..TestMaxDepth : InitCrawler(arg, depth_arg)
    /\ main_pc = "pure"
    /\ site = AnySite
    /\ InitProcess

\* crawler.is_valid_url(url)
CallIsValidUrl(url) ==
    /\ main_pc = "pure"
    /\ probe' = [fn |-> "is_valid_url", url |-> url, body |-> {},
                 result |-> is_valid_url_call(url), links |-> {}]
    /\ UNCHANGED <<site, first_run, io, base_url, domain, max_depth, visited_urls,
                   url_status, url_depth, error_urls, total_requests, stack,
                   main_pc, crawling_interrupted, crawl_result, reports,
                   api_calls, events>>

\* crawler.extract_links(html, current_url)
CallExtractLinks(body, current_url) ==
    /\ main_pc = "pure"
    /\ probe' = [fn |-> "extract_links", url |-> current_url, body |-> body,
                 result |-> IF ExtractRaises(body) THEN "ValueError" ELSE "returned",
                 links |-> IF ExtractRaises(body) THEN {}
                           ELSE extract_links(body, current_url)]
    /\ UNCHANGED <<site, first_run, io, base_url, domain, max_depth, visited_urls,
                   url_status, url_depth, error_urls, total_requests, stack,
                   main_pc, crawling_interrupted, crawl_result, reports,
                   api_calls, events>>

NextPure ==
    \/ \E url \in FilterInputs : CallIsValidUrl(url)
    \/ \E body \in Bodies, current_url \in PageUrls : CallExtractLinks(body, current_url)

SpecPure == InitPure /\ [][NextPure]_vars

(***************************************************************************)
(* A library client (the unit tests of generate_report) that crawls from   *)
(* the URL of its choice and then renders the ledger twice, with the same  *)
(* flag, the clock running on in between.                                  *)
(***************************************************************************)
\* the last clock reading a report was rendered at, StartTime before any
LastReading == IF reports = <<>> THEN StartTime
               ELSE StartTime + reports[Len(reports)].duration

\* crawler.crawl_page(url) of a client that has not rendered yet
RenderCrawl(url) ==
    /\ reports = <<>>
    /\ ApiCall(url, 0)

\* a generate_report whose look-up of the failed requests leaves an empty
\* list behind in the defaultdict
ApiReportTouching(is_partial, end_time) ==
    /\ main_pc = "api"
    /\ stack = <<>>
    /\ reports = <<>> \/ (Len(reports) = 1 /\ reports[1].partial_marker = is_partial)
    /\ end_time >= LastReading
    /\ reports' = Append(reports, generate_report(is_partial, end_time))
    /\ error_urls' = IF 0 \in DOMAIN error_urls THEN error_urls
                     ELSE Put(error_urls, 0, <<>>)
    /\ UNCHANGED <<site, first_run, probe, io, base_url, domain, max_depth,
                   visited_urls, url_status, url_depth, total_requests,
                   stack, main_pc, crawling_interrupted, crawl_result, api_calls,
                   events>>

\* crawler.generate_report(is_partial) called by the client, a second time
\* with the flag of the first
ApiReport(is_partial, end_time) ==
    /\ main_pc = "api"
    /\ stack = <<>>
    /\ reports = <<>> \/ (Len(reports) = 1 /\ reports[1].partial_marker = is_partial)
    /\ end_time >= LastReading
    /\ reports' = Append(reports, generate_report(is_partial, end_time))
    /\ UNCHANGED <<site, first_run, probe, io, base_url, domain, max_depth,
                   visited_urls, url_status, url_depth, error_urls, total_requests,
                   stack, main_pc, crawling_interrupted, crawl_result, api_calls,
                   events>>

NextReport ==
    \/ \E url \in ApiUrls : RenderCrawl(url)
    \/ CrawlPageStep
    \/ \E is_partial \in BOOLEAN, end_time \in ClockReadings : ApiReport(is_partial, end_time)

SpecReport == InitApi /\ [][NextReport]_vars

(***************************************************************************)
(* Properties.                                                             *)
(***************************************************************************)
EventIdx(op) == { i \in 1..Len(events) : events[i].op = op }
EventUrls(op) == { events[i].url : i \in EventIdx(op) }

\* the URLs whose visit has finished handling its fetch outcome
Handled == EventUrls("handled")

InErrorClass(u, code) == code \in DOMAIN error_urls /\ u \in SeqRange(error_urls[code])

\* C1: session.get is called at most once per URL, and a crawl_page call on
\* a URL that is already in visited_urls returns at once: no fetch, and
\* visited_urls, url_depth, url_status, error_urls and total_requests keep
\* their values, whatever the depth argument.
AtMostOnceVisit ==
    /\ [](\A i, j \in EventIdx("get") : events[i].url = events[j].url => i = j)
    /\ [][(At("enter") /\ Top.url \in visited_urls)
            => (ledger' = ledger /\ events' = events /\ (stack' = Pop \/ stack' = <<>>))]_vars

\* a direct call on a URL fetched earlier has returned
AtMostOnceVisitWitness ==
    /\ main_pc = "api"
    /\ stack = <<>>
    /\ \E i \in EventIdx("call"), j \in EventIdx("get") :
         j < i /\ events[i].url = events[j].url

\* C2: every recorded depth lies in 0..max_depth, and a crawl_page call
\* with depth > max_depth records nothing and fetches nothing.
DepthBound ==
    /\ [](\A u \in DOMAIN url_depth : 0 <= url_depth[u] /\ url_depth[u] <= max_depth)
    /\ [][(At("enter") /\ Top.depth > max_depth)
            => (ledger' = ledger /\ events' = events /\ (stack' = Pop \/ stack' = <<>>))]_vars

\* a direct call beyond the depth limit has returned, on a URL never recorded
DepthBoundWitness ==
    /\ main_pc = "api"
    /\ stack = <<>>
    /\ \E i \in EventIdx("call") :
         events[i].depth > max_depth /\ events[i].url \notin visited_urls

\* C3: a recorded depth never changes afterwards, also when the URL is met
\* again among the links of a page of smaller depth.
FirstWriteWinsDepth ==
    [][\A u \in DOMAIN url_depth : u \in DOMAIN url_depth' /\ url_depth'[u] = url_depth[u]]_vars

\* the loop of a page has passed over a link that was recorded, two or more
\* levels below that page, before the loop came to it
FirstWriteWinsDepthWitness ==
    \E k \in 1..Len(stack) : \E i \in EventIdx("extract") :
        /\ stack[k].pc = "loop"
        /\ events[i].url = stack[k].url
        /\ \E u \in events[i].links \ stack[k].links :
             u \in DOMAIN url_depth /\ url_depth[u] > stack[k].depth + 1

\* C4: once the visit of a URL has handled its fetch outcome, status 0 puts
\* the URL in error_urls[0], a status >= 400 in error_urls[status], and a
\* URL of status 200 is in no error list.
ErrorClassification ==
    \A u \in Handled :
        /\ u \in DOMAIN url_status
        /\ url_status[u] = 0 => InErrorClass(u, 0)
        /\ url_status[u] >= 400 => InErrorClass(u, url_status[u])
        /\ url_status[u] = 200 => u \notin ErrorListed

\* three handled URLs: one failed, one HTTP error, one 200
ErrorClassificationWitness ==
    \E u, v, w \in Handled :
        /\ url_status[u] = 0
        /\ url_status[v] = 400
        /\ url_status[w] = 200

Raised == crawl_result \in {"KeyboardInterrupt", "Exception"}

CrawlEnded == main_pc \in {"report", "output", "done"}

\* the recorded URLs that have no recorded status
NoStatus == (visited_urls \cup DOMAIN url_depth) \ DOMAIN url_status

LastCalled == events[MaxOf(EventIdx("call"))].url

GenerationFailed == io.exit_code = 1 /\ io.write_error = "none"

\* C6: main generates the report exactly once, after crawl() has ended in
\* whichever way (no report comes out of a generate_report that raises); the
\* partial flag, and so the PARTIAL REPORT marker, is set exactly when
\* crawl() raised.
ReportAfterCrawl ==
    /\ Len(reports) <= 1
    /\ Len(reports) = 1 <=> (main_pc \in {"output", "done"} /\ ~ GenerationFailed)
    /\ CrawlEnded => (crawling_interrupted <=> Raised)
    /\ CrawlEnded => crawl_result # "none"
    /\ Len(reports) = 1 => (reports[1].partial_marker <=> Raised)

\* main is done after crawl() raised an Exception, with a partial report
ReportAfterCrawlWitness ==
    /\ main_pc = "done"
    /\ crawl_result = "Exception"
    /\ Len(reports) = 1
    /\ reports[1].partial_marker

FaultIdx == { i \in 1..Len(events) : events[i].op \in FetchFaults }

InHandler(u) ==
    \E k \in 1..Len(stack) : stack[k].url = u /\ stack[k].pc \in {"except0", "except1"}

\* C7: an exception of session.get is handled inside the visit: the visit
\* stays on the stack until it returns normally to its caller, whose loop
\* is left as it was, and the URL ends with status 0 in error_urls[0];
\* nothing reaches main.
FailureContainment ==
    /\ [](\A i \in FaultIdx :
            \/ crawl_result = "KeyboardInterrupt"
            \/ InHandler(events[i].url)
            \/ /\ events[i].url \in DOMAIN url_status
               /\ url_status[events[i].url] = 0
               /\ InErrorClass(events[i].url, 0))
    /\ []((FaultIdx # {}) => crawl_result # "Exception")
    /\ [][(At("get") /\ crawl_result' # "KeyboardInterrupt") => Len(stack') = Len(stack)]_vars
    /\ [][(At("except1") /\ crawl_result' # "KeyboardInterrupt")
            => /\ stack' = Pop
               /\ Len(stack) > 1 => stack'[Len(stack')].pc = "loop"
               /\ main_pc' = main_pc
               /\ crawling_interrupted' = crawling_interrupted]_vars

\* a linked page failed with a plain Exception, was recorded as failed, and
\* the caller then fetched its next link
FailureContainmentWitness ==
    \E i \in FaultIdx : \E j \in EventIdx("get") :
        /\ events[i].op = "Exception"
        /\ events[i].depth = 1
        /\ j > i
        /\ events[j].depth = 1
        /\ url_status[events[i].url] = 0
        /\ InErrorClass(events[i].url, 0)

ExtractIdx == { i \in 1..Len(events) : events[i].op \in {"extract", "extract_failed"} }

DescentIdx == { i \in 1..Len(events) : events[i].op \in {"sleep", "call"} /\ events[i].by # NoUrl }

CalledBefore(i) == { events[j].url : j \in { k \in EventIdx("call") : k < i } }

\* the site met by the crawl is a chain: every page answered 200 and every
\* body read held exactly one admissible link, to a page not met before
ChainRun ==
    /\ FaultIdx = {}
    /\ EventIdx("extract_failed") = {}
    /\ \A u \in DOMAIN url_status : url_status[u] = 200
    /\ \A i \in EventIdx("extract") :
         /\ Cardinality(events[i].links) = 1
         /\ events[i].links \cap CalledBefore(i) = {}

\* C8: on a chain the crawl visits the root and the next max_depth pages,
\* page i at depth i, and fetches nothing below; a page at depth max_depth
\* never has its links extracted or followed.
ChainDepthLimit ==
    /\ \A i \in ExtractIdx \cup DescentIdx : events[i].depth <= max_depth
    /\ \A i \in ExtractIdx : events[i].depth < max_depth
    /\ (crawl_result = "returned" /\ ChainRun) =>
         /\ Cardinality(visited_urls) = max_depth + 1
         /\ DOMAIN url_depth = visited_urls
         /\ \A d \in 0..max_depth : \E u \in visited_urls : url_depth[u] = d
         /\ url_depth[base_url] = 0
         /\ \A i \in EventIdx("extract") :
              \A u \in events[i].links : url_depth[u] = events[i].depth + 1
         /\ EventUrls("get") = visited_urls
         /\ Cardinality(EventIdx("get")) = max_depth + 1

\* the chain root -> p1 -> p2 crawled with max_depth = 2
ChainDepthLimitWitness ==
    /\ crawl_result = "returned"
    /\ ChainRun
    /\ max_depth = 2
    /\ Cardinality(visited_urls) = 3

\* C9: links are extracted, sleeps taken and visits started only on behalf
\* of a page whose recorded status is 200.
NoDescentFromNon200 ==
    /\ \A i \in ExtractIdx :
         events[i].url \in DOMAIN url_status /\ url_status[events[i].url] = 200
    /\ \A i \in DescentIdx :
         events[i].by \in DOMAIN url_status /\ url_status[events[i].by] = 200

\* the crawl returned with pages of status 204, 400 and 0 below the limit
NoDescentFromNon200Witness ==
    /\ crawl_result = "returned"
    /\ max_depth = 2
    /\ \E u, v \in DOMAIN url_depth :
         /\ url_depth[u] = 1 /\ url_status[u] = 204
         /\ url_depth[v] = 1 /\ url_status[v] \in {0, 400}

\* C10: crawl() starts with crawl_page(base_url, 0) and, when it returns,
\* the base URL has been fetched and is recorded at depth 0 even if the
\* admission filter rejects it; every other visited URL passes the filter.
RootExemption ==
    /\ EventIdx("call") # {} => events[1] = Ev("call", base_url, NoUrl, 0, {})
    /\ crawl_result = "returned" =>
         /\ base_url \in visited_urls
         /\ base_url \in DOMAIN url_depth /\ url_depth[base_url] = 0
         /\ base_url \in EventUrls("get")
    /\ \A u \in visited_urls \ {base_url} : is_valid_url(u)

\* the crawl of a base URL that the filter rejects returned, with the base
\* URL and a linked page visited
RootExemptionWitness ==
    /\ crawl_result = "returned"
    /\ ~ is_valid_url(base_url)
    /\ base_url \in EventUrls("get")
    /\ Cardinality(visited_urls) > 1

\* C11: is_valid_url returns true exactly when the host of the URL equals
\* the domain, its scheme is http or https, its lower-cased path ends with
\* no excluded extension and contains no excluded path substring; when any
\* one of the four rules is violated it returns false, and it never raises.
AdmissionFilter ==
    probe.fn = "is_valid_url" =>
        LET url == probe.url
            same_host == url.netloc = domain
            web_scheme == url.scheme = "http" \/ url.scheme = "https"
            no_extension == \A ext \in skip_extensions : ~ EndsWith(Lower(url.path), ext)
            no_skip_path == \A skip_path \in skip_paths :
                               ~ Contains(Lower(url.path), skip_path)
        IN  probe.result =
              IF same_host /\ web_scheme /\ no_extension /\ no_skip_path
              THEN "True" ELSE "False"

\* the admission rules, stated on the components of a URL
Eligible(u) ==
    /\ u.netloc = domain
    /\ u.scheme = "http" \/ u.scheme = "https"
    /\ \A ext \in skip_extensions : ~ EndsWith(Lower(u.path), ext)
    /\ \A skip_path \in skip_paths : ~ Contains(Lower(u.path), skip_path)

\* target is href resolved against page, without its query and fragment
ResolvesTo(href, page, target) ==
    /\ target.query = "" /\ target.fragment = ""
    /\ target.path = href.path
    /\ IF href.scheme # ""
       THEN target.scheme = href.scheme /\ target.netloc = href.netloc
       ELSE target.scheme = page.scheme /\ target.netloc = page.netloc

Malformed(href) == href.netloc = BadNetloc

\* the links of the returned set are eligible targets of hrefs of the body,
\* and every href of the body with an eligible target has it in the set
ExactLinks(body, page, links) ==
    /\ \A u \in links : Eligible(u) /\ \E href \in body : ResolvesTo(href, page, u)
    /\ \A href \in body :
         LET target == [urljoin(page, href) EXCEPT !.query = "", !.fragment = ""]
         IN  Eligible(target) => target \in links
    /\ body = {} => links = {}

\* C12 as claimed: extract_links returns, for every body, exactly the
\* eligible resolved and stripped targets of the hrefs of the body that
\* resolve; none is omitted.
LinkExtraction ==
    probe.fn = "extract_links" =>
        /\ probe.result = "returned"
        /\ ExactLinks({ h \in probe.body : ~ Malformed(h) }, probe.url, probe.links)

\* C12: on a body none of whose hrefs is rejected by the URL parser,
\* extract_links returns exactly the eligible resolved and stripped targets
\* of its hrefs (the empty set for a body without href); on a body with a
\* rejected href it raises ValueError and returns no link at all.
LinkExtractionParseable ==
    probe.fn = "extract_links" =>
        IF \E href \in probe.body : Malformed(href)
        THEN probe.result = "ValueError" /\ probe.links = {}
        ELSE /\ probe.result = "returned"
             /\ ExactLinks(probe.body, probe.url, probe.links)

\* a body with an eligible href carrying a query, kept without it, and an
\* href of another host, dropped
LinkExtractionParseableWitness ==
    /\ probe.fn = "extract_links"
    /\ probe.result = "returned"
    /\ \E h \in probe.body : h.query # "" /\ [h EXCEPT !.query = "", !.fragment = ""] \in probe.links
    /\ \E h \in probe.body : h.scheme # "" /\ h.netloc # domain
    /\ Cardinality(probe.links) = 1

SleepIdx == EventIdx("sleep")

\* the fetches of pages other than the root of the crawl
LinkFetchIdx == { j \in EventIdx("get") : events[j].depth > 0 }

Emitted == io.stdout = reports \/ io.file = reports

\* C14: main exits non-zero only when generate_report itself failed; after
\* a user interrupt, after a fatal error of the crawl and after a failure
\* to write the output file the report is emitted (printed, when the write
\* failed) and main exits with 0.
ExitBehaviour ==
    main_pc = "done" =>
        /\ io.exit_code # 0 => reports = <<>>
        /\ (Raised /\ reports # <<>>) => (Emitted /\ io.exit_code = 0)
        /\ io.write_error # "none" => (io.stdout = reports /\ io.exit_code = 0)

\* C15 as claimed: two reports rendered from the same unchanged ledger with
\* the same partial flag are the same text.
RenderIdempotence == Len(reports) = 2 => reports[1] = reports[2]

WithoutDuration(report) == [report EXCEPT !.duration = 0]

\* C15: two reports rendered from the same unchanged ledger with the same
\* partial flag are the same text except for the Duration row, which is
\* the same when the clock reads the same; rendering leaves visited_urls,
\* url_depth, url_status, error_urls and total_requests as they were.
RenderIdempotenceButDuration ==
    /\ [](Len(reports) = 2 =>
            /\ WithoutDuration(reports[1]) = WithoutDuration(reports[2])
            /\ reports[2].duration >= reports[1].duration)
    /\ [][reports' # reports => ledger' = ledger]_vars

\* a ledger with two pages, one of them failed, rendered twice at two
\* different clock readings
RenderIdempotenceButDurationWitness ==
    /\ main_pc = "api"
    /\ Len(reports) = 2
    /\ reports[1].duration < reports[2].duration
    /\ reports[1].pages_visited = 2
    /\ reports[1].error_section # <<>>

\* C16: rendered from a ledger without any visited page, the report comes
\* out with its header, Total Pages Visited 0, Max Depth Reached 0, an
\* empty histogram, no error section and no depth group.
EmptyLedgerReport ==
    \A i \in 1..Len(reports) :
        visited_urls = {} =>
            /\ reports[i].title = base_url
            /\ reports[i].total_requests = 0
            /\ reports[i].pages_visited = 0
            /\ reports[i].max_depth_reached = 0
            /\ DOMAIN reports[i].status_counts = {}
            /\ reports[i].error_section = <<>>
            /\ DOMAIN reports[i].by_depth = {}

\* a crawler that has visited nothing has rendered a full report
EmptyLedgerReportWitness ==
    /\ visited_urls = {}
    /\ api_calls = 0
    /\ reports # <<>>
    /\ ~ reports[1].partial_marker

\* C17: the Total Requests of the report is the number of session.get calls
\* issued, those that raised and those answered with an error included;
\* stated for the report of a crawl that has returned.
RequestCounter ==
    (crawl_result = "returned" /\ reports # <<>>) =>
        reports[1].total_requests = Cardinality(EventIdx("get"))

\* C18: on any site and for any max_depth >= 0, a crawl() that is not
\* cancelled returns, and until then it has called session.get at most
\* once per URL.
Termination ==
    /\ <>(crawl_result = "returned" /\ stack = <<>>)
    /\ [](\A i, j \in EventIdx("get") : events[i].url = events[j].url => i = j)

\* crawl() has returned from a site of three pages, all fetched, one of
\* which links back to a page fetched before it
TerminationWitness ==
    /\ crawl_result = "returned"
    /\ Cardinality(EventIdx("get")) = 3
    /\ \E i \in EventIdx("extract") : \E j \in 1..(i - 1) :
         events[j].op = "get" /\ events[j].url \in events[i].links

\* the links a page of the site offers: those of its body when it answers
\* 200, none otherwise
LinksOf(u) ==
    IF u \in DOMAIN site /\ site[u].fault = "none" /\ site[u].code = 200
    THEN { [urljoin(u, href) EXCEPT !.query = "", !.fragment = ""] : href \in
             { h \in site[u].body :
                 Eligible([urljoin(u, h) EXCEPT !.query = "", !.fragment = ""]) } }
    ELSE {}

\* the URLs at most n links away from the base URL
RECURSIVE Within(_)
Within(n) ==
    IF n = 0 THEN {base_url}
    ELSE Within(n - 1) \cup UNION { LinksOf(u) : u \in Within(n - 1) }

\* C19: when crawl() has returned, every admissible URL that a path of at
\* most max_depth links leads to from the base URL, each link on a page
\* that answers 200, is recorded, whatever the order of the traversal.
FullCoverage ==
    crawl_result = "returned" => Within(max_depth) \subseteq visited_urls

\* C20: two runs on the same site with the same max_depth end with the
\* same visited set, the same depth per URL and the same status per URL.
DeterministicOutcome ==
    (first_run # <<>> /\ crawl_result = "returned") => first_run[1] = Outcome

FailedExtractIdx == EventIdx("extract_failed")

\* C21: when extract_links raises on the body of a page that answered 200,
\* the crawl goes on: the page keeps status 200, enters no error list and
\* has no link visited on its behalf, crawl() does not raise, and the links
\* of the pages above it are still visited, so that a crawl that returns
\* has visited every link extracted anywhere.
ExtractionFailureContainment ==
    /\ \A i \in FailedExtractIdx :
         /\ events[i].url \in DOMAIN url_status
         /\ url_status[events[i].url] = 200
         /\ events[i].url \notin ErrorListed
         /\ \A j \in 1..Len(events) : events[j].by # events[i].url
         /\ crawl_result # "Exception"
         /\ \A k \in 1..Len(stack) : stack[k].url # events[i].url
    /\ crawl_result = "returned" =>
         \A i \in EventIdx("extract") : events[i].links \subseteq visited_urls

\* the extraction failed on a page of depth 1, after which the root's loop
\* fetched the root's other link, and the crawl returned
ExtractionFailureContainmentWitness ==
    /\ crawl_result = "returned"
    /\ \E i \in FailedExtractIdx : \E g \in EventIdx("get") :
         /\ events[i].depth = 1
         /\ g > i
         /\ events[g].depth = 1

IsPrefix(s, t) == Len(s) <= Len(t) /\ SubSeq(t, 1, Len(s)) = s

\* the step writes url_status
WritesStatus == At("status") \/ At("except0")

\* C22: url_status[u] is written once, for a u that is in visited_urls and
\* has no status yet, and every visited URL has its status when crawl()
\* returns; no member of visited_urls, no entry of url_depth or url_status
\* and no element of an error list is ever removed or changed.
SingleWriteMonotone ==
    /\ [][(WritesStatus /\ url_status' # url_status)
            => /\ Top.url \in visited_urls
               /\ Top.url \notin DOMAIN url_status
               /\ DOMAIN url_status' = DOMAIN url_status \cup {Top.url}]_vars
    /\ [][url_status' # url_status => WritesStatus]_vars
    /\ [][/\ visited_urls \subseteq visited_urls'
          /\ \A u \in DOMAIN url_depth :
               u \in DOMAIN url_depth' /\ url_depth'[u] = url_depth[u]
          /\ \A u \in DOMAIN url_status :
               u \in DOMAIN url_status' /\ url_status'[u] = url_status[u]
          /\ \A c \in DOMAIN error_urls :
               c \in DOMAIN error_urls' /\ IsPrefix(error_urls[c], error_urls'[c])]_vars
    /\ [](crawl_result = "returned" => DOMAIN url_status = visited_urls)

\* a crawl of three pages has returned with two URLs in one error list
SingleWriteMonotoneWitness ==
    /\ crawl_result = "returned"
    /\ Cardinality(DOMAIN url_status) = 3
    /\ \E c \in DOMAIN error_urls : Len(error_urls[c]) = 2

\* the path a request for the URL asks for: an empty path asks for "/"
RootedPath(u) == IF u.path = <<>> THEN PathSlash ELSE u.path

\* u and v name the same scheme, host and path
SameTarget(u, v) ==
    /\ u.scheme = v.scheme
    /\ u.netloc = v.netloc
    /\ RootedPath(u) = RootedPath(v)

Recorded == visited_urls \cup DOMAIN url_depth \cup DOMAIN url_status \cup ErrorListed

\* C23: every recorded URL, the base URL included, is a scheme, a host and
\* a path without query or fragment, and two URLs of the same scheme, host
\* and path (the base URL and a link back to the root of the site, two
\* links that differ in query or fragment) are neither recorded twice nor
\* fetched twice.
CanonicalIdentity ==
    /\ \A u \in Recorded : u.query = "" /\ u.fragment = ""
    /\ \A u, v \in Recorded : SameTarget(u, v) => u = v
    /\ \A i, j \in EventIdx("get") :
         SameTarget(events[i].url, events[j].url) => i = j

CallIdxOf(u) == { i \in EventIdx("call") : events[i].url = u }

\* the page on whose behalf u was called, NoUrl for the root
CallerOf(u) == IF CallIdxOf(u) = {} THEN NoUrl
               ELSE events[CHOOSE i \in CallIdxOf(u) : TRUE].by

\* u is a, or was reached below a, by at most n calls
RECURSIVE IsUnder(_, _, _)
IsUnder(u, a, n) ==
    \/ u = a
    \/ n > 0 /\ CallerOf(u) # NoUrl /\ IsUnder(CallerOf(u), a, n - 1)

\* C24: the visits that have started and not finished form one chain from
\* the root, the k-th of them at depth k - 1 and called from the loop of
\* the one before; and when a page calls a link and later another, every
\* fetch of the first link and of what was reached below it comes before
\* the call of the second.
DepthFirstOrder ==
    /\ \A k \in 1..Len(stack) :
         /\ stack[k].depth = k - 1
         /\ k = 1 => stack[k].url = base_url
         /\ k > 1 => stack[k - 1].pc = "loop"
         /\ stack[k].pc \notin {"enter", "depth"}
              => stack[k].url \in DOMAIN url_depth /\ url_depth[stack[k].url] = k - 1
    /\ \A i, j \in EventIdx("call") :
         (i < j /\ events[i].by # NoUrl /\ events[i].by = events[j].by)
           => \A g \in EventIdx("get") :
                IsUnder(events[g].url, events[i].url, Len(events)) => g < j

\* the root called one link, a page was fetched two levels down below that
\* link, and then the root called its other link
DepthFirstOrderWitness ==
    \E i, j \in EventIdx("call") : \E g \in EventIdx("get") :
        /\ events[i].by = base_url /\ events[j].by = base_url
        /\ i < g /\ g < j
        /\ events[g].depth = 2
        /\ IsUnder(events[g].url, events[i].url, Len(events))

\* the pages counted by the rows of a report's status histogram
RECURSIVE HistogramTotal(_, _)
HistogramTotal(counts, codes) ==
    IF codes = {} THEN 0
    ELSE LET c == CHOOSE x \in codes : TRUE
         IN  counts[c][2] + HistogramTotal(counts, codes \ {c})

HistogramMatches ==
    \A i \in 1..Len(reports) :
        HistogramTotal(reports[i].status_counts, DOMAIN reports[i].status_counts)
            = reports[i].pages_visited

\* the visited URLs that have no recorded depth
NoDepth == visited_urls \ DOMAIN url_depth

\* C25 as stated: in every reachable state the keys of url_depth are the
\* visited URLs and the keys of url_status are visited URLs; after a normal
\* return of crawl() the keys of url_status are the visited URLs and the
\* histogram of the report counts Total Pages Visited entries.
KeySetAgreement ==
    /\ DOMAIN url_depth = visited_urls
    /\ DOMAIN url_status \subseteq visited_urls
    /\ crawl_result = "returned" =>
         /\ DOMAIN url_status = visited_urls
         /\ HistogramMatches

\* C25: the keys of url_status are keys of url_depth and the keys of
\* url_depth are visited URLs; the only visited URL that may lack a depth is
\* the one whose visit stands between lines 128 and 129, or stood there when
\* the crawl was interrupted; after a normal return of crawl() the three key
\* sets are equal and the histogram of the report counts Total Pages Visited
\* entries.
KeySetAgreementButEntry ==
    /\ DOMAIN url_status \subseteq DOMAIN url_depth
    /\ DOMAIN url_depth \subseteq visited_urls
    /\ \A u \in NoDepth :
         /\ u = LastCalled
         /\ IF Running THEN Top.url = u /\ Top.pc = "depth"
            ELSE crawl_result = "KeyboardInterrupt"
    /\ crawl_result = "returned" =>
         /\ NoDepth = {}
         /\ DOMAIN url_status = visited_urls
         /\ HistogramMatches

\* a crawl interrupted between lines 128 and 129 of its second page, and
\* reported: two pages visited, one of them with a depth
KeySetAgreementButEntryWitness ==
    /\ crawl_result = "KeyboardInterrupt"
    /\ reports # <<>>
    /\ Cardinality(visited_urls) = 2
    /\ Cardinality(DOMAIN url_depth) = 1
    /\ DOMAIN url_status = DOMAIN url_depth

\* C26: a URL listed under the key k of error_urls has the recorded status
\* k, and k is 0 or at least 400; no key of error_urls holds an empty list;
\* and no URL is listed twice, in one list or in two.
ErrorListConsistency ==
    /\ \A k \in DOMAIN error_urls :
         /\ error_urls[k] # <<>>
         /\ k = 0 \/ k >= 400
         /\ \A i \in 1..Len(error_urls[k]) :
              /\ error_urls[k][i] \in DOMAIN url_status
              /\ url_status[error_urls[k][i]] = k
         /\ \A i, j \in 1..Len(error_urls[k]) :
              error_urls[k][i] = error_urls[k][j] => i = j
    /\ \A k, l \in DOMAIN error_urls :
         k # l => SeqRange(error_urls[k]) \cap SeqRange(error_urls[l]) = {}

\* a failed request and an HTTP error, each listed under its own key, and
\* the page of status 200 that led to them listed nowhere
ErrorListConsistencyWitness ==
    /\ DOMAIN error_urls = {0, 400}
    /\ \E u \in DOMAIN url_status : url_status[u] = 200 /\ u \notin ErrorListed

\* the URLs recorded at depth d
AtDepth(d) == { u \in DOMAIN url_depth : url_depth[u] = d }

\* u is among the links extracted from a page recorded one level above it
\* with status 200
ExtractedOneLevelUp(u) ==
    \E i \in EventIdx("extract") :
        /\ u \in events[i].links
        /\ events[i].url \in DOMAIN url_depth
        /\ url_depth[events[i].url] = url_depth[u] - 1
        /\ events[i].url \in DOMAIN url_status
        /\ url_status[events[i].url] = 200

DeeperFromLinks ==
    \A u \in DOMAIN url_depth :
        url_depth[u] > 0 => u # base_url /\ Eligible(u) /\ ExtractedOneLevelUp(u)

\* C27 as stated: in every state of a crawl started by crawl() exactly one
\* URL, the base URL, has recorded depth 0, and every URL recorded at a
\* depth d > 0 passes the admission filter and was extracted from a page
\* recorded at depth d - 1 with status 200.
DepthProvenance ==
    main_pc # "crawl" =>
        /\ AtDepth(0) = {base_url}
        /\ DeeperFromLinks

\* C27: no URL but the base URL has recorded depth 0, and the base URL has
\* it from line 129 of the first visit on, that is as soon as anything is
\* fetched or recorded; every URL recorded at a depth d > 0 passes the
\* admission filter and was extracted from a page recorded at depth d - 1
\* with status 200.
DepthProvenanceOnceRecorded ==
    /\ AtDepth(0) \subseteq {base_url}
    /\ (url_depth # EmptyMap \/ EventIdx("get") # {} \/ Len(stack) > 1)
         => AtDepth(0) = {base_url}
    /\ DeeperFromLinks

\* a page recorded two levels below the base URL
DepthProvenanceOnceRecordedWitness ==
    /\ AtDepth(0) = {base_url}
    /\ AtDepth(1) # {}
    /\ AtDepth(2) # {}

====
